---------------------------- MODULE Spec2Model ----------------------------
(***************************************************************************)
(* Build recipes for miscellaneous macOS libraries and tools               *)
(* (src/target/__init__.py, library.py, tool.py).                          *)
(*                                                                         *)
(* The recipes are classes deriving from the host's target base classes    *)
(* (aedi.target.base, external).  The model has two parts:                 *)
(*   - the line rewrite functions (pkg-config, setup.h, wx-config),        *)
(*     SpecText;                                                           *)
(*   - the host calling targets() and the hooks of the recipes, with the   *)
(*     files the post_build hooks unlink and rename, Spec.                 *)
(* Strings are Python str values; TLC treats them as character sequences.  *)
(***************************************************************************)
EXTENDS Integers, Sequences, FiniteSets, TLC

VARIABLES
    txFn,       \* the rewrite function under call
    txLine,     \* the line handed to it
    txCalls,    \* the calls made so far: <<[pcfile, out], ...>>
    txFile,     \* the lines of the text file under rewrite
    txPasses,   \* the lines of the file after each rewrite of it
    inst,       \* the target instances: class -> fields
    state,      \* the BuildState of the build under way
    files,      \* the files below state.install_path: {[path, origin], ...}
    last,       \* the last hook call: target, hook, exception, result, calls made
    cyc,        \* the configure -> build -> post_build cycle under way
    registry,   \* what targets() returned or raised
    detected    \* what detect returned for the targets asked about one source tree

varsText == <<txFn, txLine, txCalls, txFile, txPasses>>
varsHost == <<inst, state, files, last, cyc, registry, detected>>
vars == <<txFn, txLine, txCalls, txFile, txPasses, inst, state, files, last, cyc, registry,
          detected>>

---------------------------------------------------------------------------
(* Python str operations *)

\* str.startswith(prefix)
StartsWith(s, p) == Len(s) >= Len(p) /\ SubSeq(s, 1, Len(p)) = p

\* str.endswith(suffix)
EndsWith(s, p) == Len(s) >= Len(p) /\ SubSeq(s, Len(s) - Len(p) + 1, Len(s)) = p

\* str.replace(old, new): every non-overlapping occurrence, left to right
RECURSIVE Replace(_, _, _)
Replace(s, old, new) ==
    IF Len(s) < Len(old) THEN s
    ELSE IF StartsWith(s, old)
         THEN new \o Replace(SubSeq(s, Len(old) + 1, Len(s)), old, new)
         ELSE SubSeq(s, 1, 1) \o Replace(SubSeq(s, 2, Len(s)), old, new)

---------------------------------------------------------------------------
(* Line rewrite functions *)

\* a pcfile-dependent variant: only libbrotlicommon.pc is patched
BrotliTarget_process_pkg_config_ByFile(pcfile, line) ==
    IF StartsWith(line, "Libs:") /\ pcfile = "libbrotlicommon.pc"
    THEN Replace(line, "-R${libdir} ", "") ELSE line

BrotliTarget_process_pkg_config(pcfile, line) ==
    IF StartsWith(line, "Libs:") THEN Replace(line, "-R${libdir} ", "") ELSE line

Bzip2Target_process_pkg_config(pcfile, line) ==
    IF StartsWith(line, "bindir=") THEN "" ELSE line

Bzip3Target_process_pkg_config(pcfile, line) ==
    IF StartsWith(line, "bindir=") THEN "" ELSE line

\* a variant testing 'Libs' without the colon
TiffTarget_process_pkg_config_NoColon(pcfile, line) ==
    LET version == "Version:"
        cflags  == "Cflags:"
        libs    == "Libs"
    IN  IF StartsWith(line, version) THEN version \o " 4.3.0\n"
        ELSE IF StartsWith(line, cflags)
        THEN cflags \o " -I${includedir}\nRequires.private: libjpeg liblzma libwebp libzstd zlib\n"
        ELSE IF StartsWith(line, libs) THEN libs \o ": -L${libdir} -ltiff\n"
        ELSE line

TiffTarget_process_pkg_config(pcfile, line) ==
    LET version == "Version:"
        cflags  == "Cflags:"
        libs    == "Libs:"
    IN  IF StartsWith(line, version) THEN version \o " 4.3.0\n"
        ELSE IF StartsWith(line, cflags)
        THEN cflags \o " -I${includedir}\nRequires.private: libjpeg liblzma libwebp libzstd zlib\n"
        ELSE IF StartsWith(line, libs) THEN libs \o " -L${libdir} -ltiff\n"
        ELSE line

patch_setup_h(line) ==
    LET prefix == "#define wxINSTALL_PREFIX "
    IN  IF StartsWith(line, prefix) THEN prefix \o "\"/usr/local\"\n" ELSE line

wx_prefix == "prefix=${input_option_prefix-${this_prefix:-"
wx_is_cross_func == "is_cross() "
wx_is_cross_test == "is_cross && target="
wx_output_option_cc == "[ -z \"$output_option_cc\" "
wx_output_option_cxx == "[ -z \"$output_option_cxx\" "
wx_output_option_ld == "[ -z \"$output_option_ld\" "
wx_ldlibs_gl == "ldlibs_gl="

\* a variant whose cc rule tests the variable name without the closing quote
patch_wx_config_OpenQuote(line) ==
    LET output_option_cc == "[ -z \"$output_option_c"
    IN  IF StartsWith(line, wx_prefix)
        THEN wx_prefix \o "$(cd \"${0%/*}/..\"; pwd)}}\n"
        ELSE IF StartsWith(line, wx_is_cross_func)
        THEN wx_is_cross_func \o "{ false; }\n"
        ELSE IF StartsWith(line, wx_is_cross_test)
        THEN wx_is_cross_test \o "\"\"\n"
        ELSE IF StartsWith(line, output_option_cc)
        THEN wx_output_option_cc \o "] || echo \"gcc\"\n"
        ELSE IF StartsWith(line, wx_output_option_cxx)
        THEN wx_output_option_cxx \o "] || echo \"g++\"\n"
        ELSE IF StartsWith(line, wx_output_option_ld)
        THEN wx_output_option_ld \o "] || echo \"g++ -o\"\n"
        ELSE IF StartsWith(line, wx_ldlibs_gl)
        THEN wx_ldlibs_gl \o "\"-lwx_baseu-3.1 -lwx_osx_cocoau_core-3.1 -framework OpenGL\"\n"
        ELSE line

patch_wx_config(line) ==
    IF StartsWith(line, wx_prefix)
    THEN wx_prefix \o "$(cd \"${0%/*}/..\"; pwd)}}\n"
    ELSE IF StartsWith(line, wx_is_cross_func)
    THEN wx_is_cross_func \o "{ false; }\n"
    ELSE IF StartsWith(line, wx_is_cross_test)
    THEN wx_is_cross_test \o "\"\"\n"
    ELSE IF StartsWith(line, wx_output_option_cc)
    THEN wx_output_option_cc \o "] || echo \"gcc\"\n"
    ELSE IF StartsWith(line, wx_output_option_cxx)
    THEN wx_output_option_cxx \o "] || echo \"g++\"\n"
    ELSE IF StartsWith(line, wx_output_option_ld)
    THEN wx_output_option_ld \o "] || echo \"g++ -o\"\n"
    ELSE IF StartsWith(line, wx_ldlibs_gl)
    THEN wx_ldlibs_gl \o "\"-lwx_baseu-3.1 -lwx_osx_cocoau_core-3.1 -framework OpenGL\"\n"
    ELSE line

\* the recipes that override _process_pkg_config
PkgConfigFns == {"BrotliTarget", "Bzip2Target", "TiffTarget", "Bzip3Target"}

\* the nested patch functions of WxWidgetsTarget.post_build
WxPatchFns == {"patch_setup_h", "patch_wx_config"}

process_pkg_config(cls, pcfile, line) ==
    CASE cls = "BrotliTarget" -> BrotliTarget_process_pkg_config(pcfile, line)
      [] cls = "Bzip2Target"  -> Bzip2Target_process_pkg_config(pcfile, line)
      [] cls = "TiffTarget"   -> TiffTarget_process_pkg_config(pcfile, line)
      [] cls = "Bzip3Target"  -> Bzip3Target_process_pkg_config(pcfile, line)

wx_patch(fn, line) ==
    CASE fn = "patch_setup_h"   -> patch_setup_h(line)
      [] fn = "patch_wx_config" -> patch_wx_config(line)

---------------------------------------------------------------------------
(* Python values *)

\* None, where a str could stand too (an option without a value, a hook's result)
None == "<None>"

\* no exception pending
NoExc == ""

\* dict item assignment d[k] = v
Put(d, k, v) == [x \in (DOMAIN d) \cup {k} |-> IF x = k THEN v ELSE d[x]]

\* the value d[k] of the host's option and environment mappings, whose missing
\* keys read as the empty string (external contract of 'opts[k] += text')
Get(d, k) == IF k \in DOMAIN d THEN d[k] ELSE ""

\* pathlib: path / other, for a relative or an absolute other
PathJoin(p, s) ==
    IF s = "" THEN p
    ELSE IF StartsWith(s, "/") THEN s
    ELSE p \o "/" \o s

\* os.path.dirname and os.path.basename
RECURSIVE Dirname(_)
Dirname(p) ==
    IF p = "" THEN ""
    ELSE IF EndsWith(p, "/") THEN SubSeq(p, 1, Len(p) - 1)
    ELSE Dirname(SubSeq(p, 1, Len(p) - 1))

Basename(p) == SubSeq(p, Len(Dirname(p)) + 2, Len(p))

---------------------------------------------------------------------------
(* Recipe classes *)

LibraryClasses ==
    { "BrotliTarget", "Bzip2Target", "ExpatTarget", "FfiTarget", "FreeImageTarget",
      "GettextTarget", "HighwayTarget", "IconvTarget", "IntlTarget", "JpegTurboTarget",
      "TiffTarget", "WxWidgetsTarget" }

ToolClasses ==
    { "AutoconfTarget", "AutomakeTarget", "Bzip3Target", "FFmpegTarget", "LuaTarget",
      "M4Target", "P7ZipTarget", "PbzxTarget", "Radare2Target", "RizinTarget",
      "SevenZipTarget", "UnrarTarget", "XdeltaTarget", "XzTarget", "ZipTarget" }

Classes == LibraryClasses \cup ToolClasses

Hooks == { "prepare_source", "detect", "configure", "build", "post_build" }

\* the base class named in each class statement
Parent(cls) ==
    CASE cls \in { "BrotliTarget", "Bzip2Target", "ExpatTarget", "HighwayTarget",
                   "JpegTurboTarget", "TiffTarget", "WxWidgetsTarget", "Bzip3Target",
                   "XzTarget" } -> "base.CMakeStaticDependencyTarget"
      [] cls \in { "FfiTarget", "GettextTarget", "IconvTarget" }
            -> "base.ConfigureMakeStaticDependencyTarget"
      [] cls \in { "AutoconfTarget", "AutomakeTarget", "FFmpegTarget", "M4Target",
                   "XdeltaTarget" } -> "base.ConfigureMakeDependencyTarget"
      [] cls \in { "FreeImageTarget", "LuaTarget", "SevenZipTarget", "UnrarTarget" }
            -> "base.MakeTarget"
      [] cls = "IntlTarget" -> "GettextTarget"
      [] cls = "P7ZipTarget" -> "base.CMakeTarget"
      [] cls \in { "PbzxTarget", "ZipTarget" } -> "base.SingleExeCTarget"
      [] cls \in { "Radare2Target", "RizinTarget" } -> "base.MesonTarget"

\* the fields the host's base constructor gives an instance (external contract)
BaseInit(name) ==
    [ name |-> name, src_root |-> "", options |-> <<>>,
      multi_platform |-> TRUE, configure_prefix |-> TRUE ]

\* __init__ of the classes of library.py
library_init(cls) ==
    CASE cls = "BrotliTarget"    -> BaseInit("brotli")
      [] cls = "Bzip2Target"     -> BaseInit("bzip2")
      [] cls = "ExpatTarget"     -> BaseInit("expat")
      [] cls = "FfiTarget"       -> BaseInit("ffi")
      [] cls = "FreeImageTarget" -> BaseInit("freeimage")
      [] cls = "GettextTarget"   -> BaseInit("gettext")
      [] cls = "HighwayTarget"   -> BaseInit("highway")
      [] cls = "IconvTarget"     -> BaseInit("iconv")
      [] cls = "IntlTarget"      -> BaseInit("intl")
      [] cls = "JpegTurboTarget" -> BaseInit("jpeg-turbo")
      [] cls = "TiffTarget"      -> BaseInit("tiff")
      [] cls = "WxWidgetsTarget" -> BaseInit("wxwidgets")

\* __init__ of the classes of tool.py
tool_init(cls) ==
    CASE cls = "AutoconfTarget" -> [BaseInit("autoconf") EXCEPT !.multi_platform = FALSE]
      [] cls = "AutomakeTarget" -> [BaseInit("automake") EXCEPT !.multi_platform = FALSE]
      [] cls = "Bzip3Target"    -> BaseInit("bzip3")
      [] cls = "FFmpegTarget"   -> BaseInit("ffmpeg")
      [] cls = "LuaTarget"      -> BaseInit("lua")
      [] cls = "M4Target"       -> BaseInit("m4")
      [] cls = "P7ZipTarget"    -> [BaseInit("p7zip") EXCEPT !.src_root = "CPP/7zip/CMAKE/7za"]
      [] cls = "PbzxTarget"     ->
            [BaseInit("pbzx") EXCEPT !.options = <<"pbzx.c", "-lxar", "-llzma">>]
      [] cls = "Radare2Target"  -> [BaseInit("radare2") EXCEPT !.configure_prefix = FALSE]
      [] cls = "RizinTarget"    -> BaseInit("rizin")
      [] cls = "SevenZipTarget" ->
            [BaseInit("7zip") EXCEPT !.src_root = "CPP/7zip/Bundles/Alone2"]
      [] cls = "UnrarTarget"    -> BaseInit("unrar")
      [] cls = "XdeltaTarget"   -> [BaseInit("xdelta") EXCEPT !.src_root = "xdelta3"]
      [] cls = "XzTarget"       -> BaseInit("xz")
      [] cls = "ZipTarget"      ->
            [BaseInit("zip") EXCEPT !.options =
                << "-I.", "-DUNIX", "-DBZIP2_SUPPORT", "-DLARGE_FILE_SUPPORT",
                   "-DUNICODE_SUPPORT", "-DHAVE_DIRENT_H", "-DHAVE_TERMIOS_H", "-lbz2",
                   "crc32.c", "crypt.c", "deflate.c", "fileio.c", "globals.c", "trees.c",
                   "ttyio.c", "unix/unix.c", "util.c", "zip.c", "zipfile.c", "zipup.c" >>]

\* calling a class: the instance its constructor returns
Construct(cls) == IF cls \in LibraryClasses THEN library_init(cls) ELSE tool_init(cls)

---------------------------------------------------------------------------
(* targets() *)

\* the names called in the tuple display of targets(), in order
TargetsNames ==
    << "BrotliTarget", "Bzip2Target", "ExpatTarget", "FfiTarget", "FreeImageTarget",
       "GettextTarget", "HighwayTarget", "IconvTarget", "IntlTarget", "JpegTurboTarget",
       "OpusFileTarget", "TiffTarget", "WxWidgetsTarget",
       "AutoconfTarget", "AutomakeTarget", "BisonTarget", "Bzip3Target", "FFmpegTarget",
       "GraphvizTarget", "LuaTarget", "M4Target", "P7ZipTarget", "PbzxTarget",
       "Radare2Target", "RizinTarget", "SevenZipTarget", "TimemoryTarget", "UnrarTarget",
       "XdeltaTarget", "XzTarget", "ZipTarget" >>

\* the target classes 'from .library import *' and 'from .tool import *' bind
ModuleGlobals == LibraryClasses \cup ToolClasses

\* the tuple display is evaluated left to right; an unbound name raises NameError
RECURSIVE EvalTuple(_, _)
EvalTuple(names, built) ==
    IF names = <<>> THEN [exc |-> NoExc, name |-> "", value |-> built]
    ELSE IF Head(names) \notin ModuleGlobals
         THEN [exc |-> "NameError", name |-> Head(names), value |-> <<>>]
         ELSE EvalTuple(Tail(names), Append(built, Head(names)))

targets == EvalTuple(TargetsNames, <<>>)

---------------------------------------------------------------------------
(* One hook call.  A hook runs on a record m:                              *)
(*   self   the fields of the target instance                              *)
(*   state  the BuildState: options, build_path, install_path,             *)
(*          environment, arch (state.architecture()), tree (the source     *)
(*          files state.has_source_file() finds)                           *)
(*   files  the files below install_path, each [path, origin]              *)
(*   trace  the calls made to the host and the operating system            *)
(*   frames the recipe classes whose code has run                          *)
(*   exc    the pending exception, ret the value returned                  *)
(*   n      the number of external calls made                              *)
(*   inp    what the environment decides: failAt, the external call that   *)
(*          raises (0: none); rc, the exit status of a subprocess;         *)
(*          installed and order, the files the host's install step leaves  *)
(*          and the order a directory listing yields them; dirs, the       *)
(*          directories that exist beside install_path/lib and /bin        *)
(* No hook of the repository has a try statement: once exc is set every    *)
(* later step is skipped.                                                  *)

Live(m) == m.exc = NoExc

Event(m, call, arg, ok, rc) ==
    [ call |-> call, arg |-> arg, ok |-> ok, rc |-> rc,
      src_root |-> m.self.src_root, build_path |-> m.state.build_path,
      options |-> m.state.options ]

\* code of recipe class cls starts to run
Enter(m, cls) == IF Live(m) THEN [m EXCEPT !.frames = @ \cup {cls}] ELSE m

\* a call to the host or the operating system, which returns or raises
Ext(m, call, arg) ==
    IF ~Live(m) THEN m
    ELSE IF m.n + 1 = m.inp.failAt
         THEN [m EXCEPT !.n = @ + 1, !.exc = "Error",
                        !.trace = Append(@, Event(m, call, arg, FALSE, 0))]
         ELSE [m EXCEPT !.n = @ + 1,
                        !.trace = Append(@, Event(m, call, arg, TRUE, 0))]

\* state.options[key] = val
SetOpt(m, key, val) ==
    IF Live(m) THEN [m EXCEPT !.state.options = Put(@, key, val)] ELSE m

\* state.options[key] += text
AddOpt(m, key, text) ==
    IF Live(m) THEN [m EXCEPT !.state.options = Put(@, key, Get(@, key) \o text)] ELSE m

\* state.environment[key] += text
AddEnv(m, key, text) ==
    IF Live(m) THEN [m EXCEPT !.state.environment[key] = @ \o text] ELSE m

\* self.src_root = val
SetSrcRoot(m, val) == IF Live(m) THEN [m EXCEPT !.self.src_root = val] ELSE m

\* return state.has_source_file(file)
HasSourceFile(m, file) ==
    LET m1 == Ext(m, "state.has_source_file", <<file>>)
    IN  IF Live(m1)
        THEN [m1 EXCEPT !.ret = IF file \in m.state.tree THEN "True" ELSE "False"]
        ELSE m1

\* the hook as the external base class defines it; the base post_build
\* installs the build, leaving inp.installed below install_path
BaseHook(m, base, hook) ==
    LET m1 == Ext(m, base \o "." \o hook, <<>>)
    IN  IF Live(m1) /\ hook = "post_build"
        THEN [m1 EXCEPT !.files =
                 { [path |-> PathJoin(m.state.install_path, f), origin |-> f] :
                       f \in m.inp.installed }]
        ELSE m1

\* subprocess.run(args, check=check, cwd=cwd, env=state.environment)
SubprocessRun(m, args, check, cwd) ==
    IF ~Live(m) THEN m
    ELSE IF m.n + 1 = m.inp.failAt
         THEN [m EXCEPT !.n = @ + 1, !.exc = "Error",
                        !.trace = Append(@, Event(m, "subprocess.run", <<args, cwd>>, FALSE, 0))]
         ELSE IF check /\ m.inp.rc # 0
         THEN [m EXCEPT !.n = @ + 1, !.exc = "CalledProcessError",
                        !.trace = Append(@, Event(m, "subprocess.run", <<args, cwd>>,
                                                  FALSE, m.inp.rc))]
         ELSE [m EXCEPT !.n = @ + 1,
                        !.trace = Append(@, Event(m, "subprocess.run", <<args, cwd>>,
                                                  TRUE, m.inp.rc))]

\* the directories that exist below and beside install_path
Dirs(m) ==
    { PathJoin(m.state.install_path, "lib"), PathJoin(m.state.install_path, "bin") }
        \cup m.inp.dirs

\* glob.iglob(str(dir / ('*' + suffix))): the files of dir whose name ends with
\* suffix and does not start with a dot, in directory order (dir holds no
\* pattern characters)
RECURSIVE GlobListed(_, _, _, _)
GlobListed(m, order, dir, suffix) ==
    IF order = <<>> THEN <<>>
    ELSE LET p == PathJoin(m.state.install_path, Head(order))
             rest == GlobListed(m, Tail(order), dir, suffix)
         IN  IF /\ \E f \in m.files : f.path = p
                /\ Dirname(p) = dir
                /\ ~StartsWith(Basename(p), ".")
                /\ EndsWith(Basename(p), suffix)
             THEN <<p>> \o rest
             ELSE rest

Glob(m, dir, suffix) == GlobListed(m, m.inp.order, dir, suffix)

\* os.unlink(path)
Unlink(m, path) ==
    IF ~Live(m) THEN m
    ELSE IF \E f \in m.files : f.path = path
         THEN [m EXCEPT !.files = { f \in @ : f.path # path },
                        !.trace = Append(@, Event(m, "os.unlink", <<path>>, TRUE, 0))]
         ELSE [m EXCEPT !.exc = "FileNotFoundError",
                        !.trace = Append(@, Event(m, "os.unlink", <<path>>, FALSE, 0))]

\* os.rename(src, dst): replaces a file at dst; fails when src is missing or
\* the directory of dst does not exist
Rename(m, src, dst) ==
    IF ~Live(m) THEN m
    ELSE IF (\E f \in m.files : f.path = src) /\ Dirname(dst) \in Dirs(m)
         THEN [m EXCEPT !.files =
                     { f \in @ : f.path \notin {src, dst} }
                         \cup { [path |-> dst, origin |-> f.origin] :
                                    f \in { g \in @ : g.path = src } },
                        !.trace = Append(@, Event(m, "os.rename", <<src, dst>>, TRUE, 0))]
         ELSE [m EXCEPT !.exc = "FileNotFoundError",
                        !.trace = Append(@, Event(m, "os.rename", <<src, dst>>, FALSE, 0))]

---------------------------------------------------------------------------
(* library.py *)

BrotliTarget_prepare_source(m) ==
    Ext(Enter(m, "BrotliTarget"), "state.download_source",
        <<"https://github.com/google/brotli/archive/refs/tags/v1.0.9.tar.gz", "f9e8d81d0405ba66d181529af42a3354f838c939095ff99930da6aa9cdf6fe46">>)

Bzip2Target_prepare_source(m) ==
    Ext(Enter(m, "Bzip2Target"), "state.download_source",
        <<"https://sourceware.org/pub/bzip2/bzip2-1.0.8.tar.gz", "ab5a03176ee106d3f0fa90e381da478ddae405918153cca248e682cd0c4a2269", "bzip2-add-cmake">>)

ExpatTarget_prepare_source(m) ==
    Ext(Enter(m, "ExpatTarget"), "state.download_source",
        <<"https://github.com/libexpat/libexpat/releases/download/R_2_4_1/expat-2.4.1.tar.xz", "cf032d0dba9b928636548e32b327a2d66b1aab63c4f4a13dd132c2d1d2f2fb6a">>)

FfiTarget_prepare_source(m) ==
    Ext(Enter(m, "FfiTarget"), "state.download_source",
        <<"https://github.com/libffi/libffi/releases/download/v3.4.6/libffi-3.4.6.tar.gz", "b0dea9df23c863a7a50e825440f3ebffabd65df1497108e5d437747843895a4e">>)

FreeImageTarget_prepare_source(m) ==
    Ext(Enter(m, "FreeImageTarget"), "state.download_source",
        <<"https://downloads.sourceforge.net/project/freeimage/Source%20Distribution/3.18.0/FreeImage3180.zip", "f41379682f9ada94ea7b34fe86bf9ee00935a3147be41b6569c9605a53e438fd", "freeimage-fix-arm64">>)

GettextTarget_prepare_source(m) ==
    Ext(Enter(m, "GettextTarget"), "state.download_source",
        <<"https://ftp.gnu.org/gnu/gettext/gettext-0.21.tar.xz", "d20fcbb537e02dcf1383197ba05bd0734ef7bf5db06bdb241eb69b7d16b73192">>)

HighwayTarget_prepare_source(m) ==
    Ext(Enter(m, "HighwayTarget"), "state.download_source",
        <<"https://github.com/google/highway/archive/refs/tags/1.0.6.tar.gz", "d89664a045a41d822146e787bceeefbf648cc228ce354f347b18f2b419e57207">>)

IconvTarget_prepare_source(m) ==
    Ext(Enter(m, "IconvTarget"), "state.download_source",
        <<"https://ftp.gnu.org/gnu/libiconv/libiconv-1.17.tar.gz", "8f74213b56238c85a50a5329f77e06198771e70dd9a739779f4c02f65d971313">>)

JpegTurboTarget_prepare_source(m) ==
    Ext(Enter(m, "JpegTurboTarget"), "state.download_source",
        <<"https://github.com/libjpeg-turbo/libjpeg-turbo/releases/download/3.1.0/libjpeg-turbo-3.1.0.tar.gz", "9564c72b1dfd1d6fe6274c5f95a8d989b59854575d4bbee44ade7bc17aa9bc93">>)

TiffTarget_prepare_source(m) ==
    Ext(Enter(m, "TiffTarget"), "state.download_source",
        <<"https://download.osgeo.org/libtiff/tiff-4.3.0.tar.gz", "0e46e5acb087ce7d1ac53cf4f56a09b221537fc86dfc5daaad1c2e89e1b37ac8", "tiff-remove-useless">>)

WxWidgetsTarget_prepare_source(m) ==
    Ext(Enter(m, "WxWidgetsTarget"), "state.download_source",
        <<"https://github.com/wxWidgets/wxWidgets/releases/download/v3.1.5/wxWidgets-3.1.5.tar.bz2", "d7b3666de33aa5c10ea41bb9405c40326e1aeb74ee725bb88f90f1d50270a224", "wxwidgets-library-suffix">>)

\* for dylib in glob.iglob(dylib_pattern): os.unlink(dylib)
RECURSIVE BrotliUnlinkAll(_, _)
BrotliUnlinkAll(m, dylibs) ==
    IF dylibs = <<>> THEN m
    ELSE BrotliUnlinkAll(Unlink(m, Head(dylibs)), Tail(dylibs))

\* for archive in glob.iglob(archive_pattern): os.rename(archive, no_suffix_name)
RECURSIVE BrotliRenameAll(_, _, _)
BrotliRenameAll(m, archives, archive_suffix) ==
    IF archives = <<>> THEN m
    ELSE LET archive == Head(archives)
             no_suffix_name == Replace(archive, archive_suffix, ".a")
         IN  BrotliRenameAll(Rename(m, archive, no_suffix_name), Tail(archives),
                             archive_suffix)

BrotliTarget_post_build(m) ==
    LET m1 == BaseHook(Enter(m, "BrotliTarget"), "base.CMakeStaticDependencyTarget",
                       "post_build")
        lib == PathJoin(m1.state.install_path, "lib")
        m2 == BrotliUnlinkAll(m1, Glob(m1, lib, ".dylib"))
        archive_suffix == "-static.a"
    IN  BrotliRenameAll(m2, Glob(m2, lib, archive_suffix), archive_suffix)

Bzip2Target_detect(m) == HasSourceFile(Enter(m, "Bzip2Target"), "bzlib.h")

Bzip2Target_configure(m) ==
    LET m1 == SetOpt(Enter(m, "Bzip2Target"), "ENABLE_APP", "NO")
        m2 == SetOpt(m1, "ENABLE_SHARED_LIB", "NO")
        m3 == SetOpt(m2, "ENABLE_STATIC_LIB", "YES")
        m4 == SetOpt(m3, "ENABLE_TESTS", "NO")
    IN  BaseHook(m4, "base.CMakeStaticDependencyTarget", "configure")

Bzip2Target_post_build(m) ==
    LET m1 == BaseHook(Enter(m, "Bzip2Target"), "base.CMakeStaticDependencyTarget",
                       "post_build")
        lib_path == PathJoin(m1.state.install_path, "lib")
    IN  Rename(m1, PathJoin(lib_path, "libbz2_static.a"), PathJoin(lib_path, "libbz2.a"))

ExpatTarget_configure(m) ==
    LET m1 == SetOpt(Enter(m, "ExpatTarget"), "EXPAT_BUILD_EXAMPLES", "NO")
        m2 == SetOpt(m1, "EXPAT_BUILD_TESTS", "NO")
        m3 == SetOpt(m2, "EXPAT_BUILD_TOOLS", "NO")
    IN  BaseHook(m3, "base.CMakeStaticDependencyTarget", "configure")

FfiTarget_detect(m) == HasSourceFile(Enter(m, "FfiTarget"), "libffi.pc.in")

FfiTarget_post_build(m) ==
    LET m1 == BaseHook(Enter(m, "FfiTarget"), "base.ConfigureMakeStaticDependencyTarget",
                       "post_build")
        m2 == Ext(m1, "self.make_platform_header", <<"ffi.h">>)
    IN  Ext(m2, "self.make_platform_header", <<"ffitarget.h">>)

FreeImageTarget_HEADER_FILE == "Source/FreeImage.h"

FreeImageTarget_detect(m) ==
    HasSourceFile(Enter(m, "FreeImageTarget"), FreeImageTarget_HEADER_FILE)

FreeImageTarget_configure(m) ==
    LET m1 == BaseHook(Enter(m, "FreeImageTarget"), "base.MakeTarget", "configure")
        common_flags == " -O3 -fPIC -fexceptions -fvisibility=hidden"
        m2 == AddEnv(m1, "CFLAGS",
                     common_flags \o " -std=gnu89 -Wno-implicit-function-declaration")
        m3 == AddEnv(m2, "CXXFLAGS", common_flags \o " -Wno-ctor-dtor-privacy")
        m4 == SetOpt(m3, "-f", None)
        m5 == SetOpt(m4, "Makefile.gnu", None)
    IN  SetOpt(m5, "libfreeimage.a", None)

FreeImageTarget_post_build(m) ==
    LET m0 == Enter(m, "FreeImageTarget")
        include_path == PathJoin(m0.state.install_path, "include")
        m1 == Ext(m0, "os.makedirs", <<include_path>>)
        m2 == Ext(m1, "shutil.copy",
                  <<PathJoin(m1.state.build_path, FreeImageTarget_HEADER_FILE), include_path>>)
        lib_path == PathJoin(m0.state.install_path, "lib")
        m3 == Ext(m2, "os.makedirs", <<lib_path>>)
        m4 == Ext(m3, "shutil.copy",
                  <<PathJoin(m3.state.build_path, "libfreeimage.a"), lib_path>>)
    IN  Ext(m4, "self.write_pc_file", <<"version=3.18.0", "libs=-lfreeimage -lc++">>)

GettextTarget_detect(m) == HasSourceFile(Enter(m, "GettextTarget"), "gettext-runtime")

\* a variant that also selects the runtime's source root
GettextTarget_configure_SetsSrcRoot(m) ==
    LET m1 == SetOpt(Enter(m, "GettextTarget"), "--enable-csharp", "no")
        m2 == SetOpt(m1, "--enable-java", "no")
        m3 == SetOpt(m2, "--enable-libasprintf", "no")
        m4 == SetSrcRoot(m3, "gettext-runtime")
    IN  BaseHook(m4, "base.ConfigureMakeStaticDependencyTarget", "configure")

GettextTarget_configure(m) ==
    LET m1 == SetOpt(Enter(m, "GettextTarget"), "--enable-csharp", "no")
        m2 == SetOpt(m1, "--enable-java", "no")
        m3 == SetOpt(m2, "--enable-libasprintf", "no")
    IN  BaseHook(m3, "base.ConfigureMakeStaticDependencyTarget", "configure")

HighwayTarget_configure(m) ==
    LET m1 == SetOpt(Enter(m, "HighwayTarget"), "HWY_ENABLE_CONTRIB", "NO")
        m2 == SetOpt(m1, "HWY_ENABLE_EXAMPLES", "NO")
        m3 == SetOpt(m2, "HWY_ENABLE_TESTS", "NO")
    IN  BaseHook(m3, "base.CMakeStaticDependencyTarget", "configure")

IconvTarget_detect(m) == HasSourceFile(Enter(m, "IconvTarget"), "include/iconv.h.in")

IconvTarget_configure(m) ==
    BaseHook(SetOpt(Enter(m, "IconvTarget"), "--enable-extra-encodings", "yes"),
             "base.ConfigureMakeStaticDependencyTarget", "configure")

\* super() of IntlTarget is GettextTarget
\* a variant that selects the runtime's source root only while none is set
IntlTarget_configure_NoReset(m) ==
    LET m1 == SetOpt(Enter(m, "IntlTarget"), "--localedir", "/usr/local/share/locale")
        m2 == IF m1.self.src_root = "" THEN SetSrcRoot(m1, "gettext-runtime") ELSE m1
    IN  GettextTarget_configure(m2)

IntlTarget_configure(m) ==
    LET m1 == SetOpt(Enter(m, "IntlTarget"), "--localedir", "/usr/local/share/locale")
        m2 == SetSrcRoot(m1, "gettext-runtime")
    IN  GettextTarget_configure(m2)

\* GettextTarget defines no build: super().build is the base class's
IntlTarget_build(m) ==
    LET m0 == Enter(m, "IntlTarget")
        m1 == SetSrcRoot(m0, m0.self.src_root \o "/intl")
    IN  BaseHook(m1, "base.ConfigureMakeStaticDependencyTarget", "build")

IntlTarget_post_build(m) ==
    LET m1 == SetOpt(Enter(m, "IntlTarget"), "install-exec-am", None)
        m2 == SetOpt(m1, "install-nodist_includeHEADERS", None)
        m3 == IF Live(m2)
              THEN [m2 EXCEPT !.state.build_path = PathJoin(@, m2.self.src_root)]
              ELSE m2
    IN  Ext(m3, "self.install", <<>>)

JpegTurboTarget_configure(m) ==
    BaseHook(SetOpt(Enter(m, "JpegTurboTarget"), "ENABLE_SHARED", "NO"),
             "base.CMakeStaticDependencyTarget", "configure")

TiffTarget_configure(m) ==
    LET m1 == SetOpt(Enter(m, "TiffTarget"), "cxx", "NO")
        m2 == SetOpt(m1, "lzma", "YES")
    IN  BaseHook(m2, "base.CMakeStaticDependencyTarget", "configure")

WxWidgetsTarget_configure(m) ==
    LET m1 == SetOpt(Enter(m, "WxWidgetsTarget"), "wxBUILD_SHARED", "NO")
        m2 == SetOpt(m1, "wxUSE_LIBLZMA", "YES")
        m3 == SetOpt(m2, "wxUSE_LIBSDL", "NO")
        m4 == SetOpt(m3, "wxUSE_LIBJPEG", "sys")
        m5 == SetOpt(m4, "wxUSE_LIBPNG", "sys")
        m6 == SetOpt(m5, "wxUSE_LIBTIFF", "sys")
    IN  BaseHook(m6, "base.CMakeStaticDependencyTarget", "configure")

WxWidgetsTarget_post_build(m) ==
    LET m1 == BaseHook(Enter(m, "WxWidgetsTarget"), "base.CMakeStaticDependencyTarget",
                       "post_build")
        setup_h_path == PathJoin(m1.state.install_path,
                            "lib/wx/include/osx_cocoa-unicode-static-3.1/wx/setup.h")
        m2 == Ext(m1, "self.update_text_file", <<setup_h_path, "patch_setup_h">>)
        wx_config_path == PathJoin(m1.state.install_path, "bin/wx-config")
    IN  Ext(m2, "self.update_text_file", <<wx_config_path, "patch_wx_config">>)

---------------------------------------------------------------------------
(* tool.py *)

AutoconfTarget_prepare_source(m) ==
    Ext(Enter(m, "AutoconfTarget"), "state.download_source",
        <<"https://ftp.gnu.org/gnu/autoconf/autoconf-2.72.tar.xz", "ba885c1319578d6c94d46e9b0dceb4014caafe2490e437a0dbca3f270a223f5a">>)

AutomakeTarget_prepare_source(m) ==
    Ext(Enter(m, "AutomakeTarget"), "state.download_source",
        <<"https://ftp.gnu.org/gnu/automake/automake-1.16.5.tar.xz", "f01d58cd6d9d77fbdca9eb4bbd5ead1988228fdb73d6f7a201f5f8d6b118b469">>)

Bzip3Target_prepare_source(m) ==
    Ext(Enter(m, "Bzip3Target"), "state.download_source",
        <<"https://github.com/kspalaiologos/bzip3/releases/download/1.5.1/bzip3-1.5.1.tar.xz", "53b844f9d9fb1d75faa4d3a9d9026017caaf50bb200b320d1685c6506b8f3b37">>)

FFmpegTarget_prepare_source(m) ==
    Ext(Enter(m, "FFmpegTarget"), "state.download_source",
        <<"https://ffmpeg.org/releases/ffmpeg-7.1.tar.xz", "40973d44970dbc83ef302b0609f2e74982be2d85916dd2ee7472d30678a7abe6">>)

LuaTarget_prepare_source(m) ==
    Ext(Enter(m, "LuaTarget"), "state.download_source",
        <<"https://www.lua.org/ftp/lua-5.4.8.tar.gz", "4f18ddae154e793e46eeab727c59ef1c0c0c2b744e7b94219710d76f530629ae">>)

M4Target_prepare_source(m) ==
    Ext(Enter(m, "M4Target"), "state.download_source",
        <<"https://ftp.gnu.org/gnu/m4/m4-1.4.19.tar.xz", "63aede5c6d33b6d9b13511cd0be2cac046f2e70fd0a07aa9573a04a82783af96">>)

P7ZipTarget_prepare_source(m) ==
    Ext(Enter(m, "P7ZipTarget"), "state.download_source",
        <<"https://github.com/p7zip-project/p7zip/archive/refs/tags/v17.04.tar.gz", "ea029a2e21d2d6ad0a156f6679bd66836204aa78148a4c5e498fe682e77127ef">>)

PbzxTarget_prepare_source(m) ==
    Ext(Enter(m, "PbzxTarget"), "state.download_source",
        <<"https://github.com/nrosenstein-stuff/pbzx/archive/refs/tags/v1.0.2.tar.gz", "33db3cf9dc70ae704e1bbfba52c984f4c6dbfd0cc4449fa16408910e22b4fd90", "pbzx-xar-content">>)

Radare2Target_prepare_source(m) ==
    Ext(Enter(m, "Radare2Target"), "state.download_source",
        <<"https://github.com/radareorg/radare2/releases/download/5.9.8/radare2-5.9.8.tar.xz", "de061db6089cc1321ba9062b8aa9a0adaaa7a4d25128aab37a2a44e71a939829">>)

RizinTarget_prepare_source(m) ==
    Ext(Enter(m, "RizinTarget"), "state.download_source",
        <<"https://github.com/rizinorg/rizin/releases/download/v0.8.1/rizin-src-v0.8.1.tar.xz", "ef2b1e6525d7dc36ac43525b956749c1cca07bf17c1fed8b66402d82010a4ec2">>)

SevenZipTarget_prepare_source(m) ==
    Ext(Enter(m, "SevenZipTarget"), "state.download_source",
        <<"https://7-zip.org/a/7z2409-src.tar.xz", "49c05169f49572c1128453579af1632a952409ced028259381dac30726b6133a">>)

UnrarTarget_prepare_source(m) ==
    Ext(Enter(m, "UnrarTarget"), "state.download_source",
        <<"https://www.rarlab.com/rar/unrarsrc-6.2.12.tar.gz", "a008b5f949bca9bb4ffa1bebbfc8b3c14b89df10a10354809b845232d5f582e5">>)

XdeltaTarget_prepare_source(m) ==
    Ext(Enter(m, "XdeltaTarget"), "state.download_source",
        <<"https://github.com/jmacd/xdelta/archive/refs/tags/v3.1.0.tar.gz", "7515cf5378fca287a57f4e2fee1094aabc79569cfe60d91e06021a8fd7bae29d">>)

XzTarget_prepare_source(m) ==
    Ext(Enter(m, "XzTarget"), "state.download_source",
        <<"https://github.com/tukaani-project/xz/releases/download/v5.6.3/xz-5.6.3.tar.xz", "db0590629b6f0fa36e74aea5f9731dc6f8df068ce7b7bafa45301832a5eebc3a">>)

ZipTarget_prepare_source(m) ==
    Ext(Enter(m, "ZipTarget"), "state.download_source",
        <<"https://downloads.sourceforge.net/project/infozip/Zip%203.x%20%28latest%29/3.0/zip30.tar.gz", "f0e8bb1f9b7eb0b01285495a2699df3a4b766784c1765a8f1aeedf63c0806369", "zip-fix-misc">>)

Bzip3Target_configure(m) ==
    BaseHook(SetOpt(Enter(m, "Bzip3Target"), "CMAKE_SKIP_INSTALL_RPATH", "YES"),
             "base.CMakeStaticDependencyTarget", "configure")

FFmpegTarget_detect(m) == HasSourceFile(Enter(m, "FFmpegTarget"), "doc/ffmpeg.txt")

FFmpegTarget_configure(m) ==
    LET m0 == Enter(m, "FFmpegTarget")
    IN  BaseHook(SetOpt(m0, "--arch", m0.state.arch),
                 "base.ConfigureMakeDependencyTarget", "configure")

LuaTarget_detect(m) == HasSourceFile(Enter(m, "LuaTarget"), "src/lua.h")

LuaTarget_post_build(m) ==
    LET m1 == SetOpt(Enter(m, "LuaTarget"), "install", None)
        m2 == SetOpt(m1, "INSTALL_TOP", m1.state.install_path)
    IN  Ext(m2, "self.install", <<>>)

\* 'a and b': the second file is looked up only when the first is found
\* a variant that is content with either of the two files
P7ZipTarget_detect_Either(m) ==
    LET m1 == HasSourceFile(Enter(m, "P7ZipTarget"), "CPP/7zip/CMAKE/CMakeLists.txt")
    IN  IF Live(m1) /\ m1.ret = "False"
        THEN HasSourceFile(m1, "C/fast-lzma2/fast-lzma2.h")
        ELSE m1

P7ZipTarget_detect(m) ==
    LET m1 == HasSourceFile(Enter(m, "P7ZipTarget"), "CPP/7zip/CMAKE/CMakeLists.txt")
    IN  IF Live(m1) /\ m1.ret = "True"
        THEN HasSourceFile(m1, "C/fast-lzma2/fast-lzma2.h")
        ELSE m1

P7ZipTarget_post_build(m) == Ext(Enter(m, "P7ZipTarget"), "self.copy_to_bin", <<"7za">>)

PbzxTarget_detect(m) == HasSourceFile(Enter(m, "PbzxTarget"), "pbzx.c")

Radare2Target_detect(m) == HasSourceFile(Enter(m, "Radare2Target"), "man/radare2.1")

Radare2Target_configure(m) ==
    LET m1 == SetOpt(Enter(m, "Radare2Target"), "blob", "true")
        m2 == SetOpt(m1, "enable_tests", "false")
        m3 == SetOpt(m2, "enable_r2r", "false")
        m4 == SetOpt(m3, "local", "true")
        m5 == SetOpt(m4, "r2_gittip", "ea7f0356519884715cf1d5fba16042bac72b2df5")
        m6 == SetOpt(m5, "r2_version_commit", "1")
        m7 == SetOpt(m6, "static_runtime", "true")
    IN  BaseHook(m7, "base.MesonTarget", "configure")

Radare2Target_post_build(m) ==
    LET m1 == BaseHook(Enter(m, "Radare2Target"), "base.MesonTarget", "post_build")
        bin_path == PathJoin(m1.state.install_path, "bin")
        m2 == Unlink(m1, PathJoin(bin_path, "r2blob.static"))
    IN  Rename(m2, PathJoin(bin_path, "r2blob"), PathJoin(bin_path, "radare2"))

RizinTarget_detect(m) == HasSourceFile(Enter(m, "RizinTarget"), "binrz/man/rizin.1")

RizinTarget_configure(m) ==
    LET m1 == SetOpt(Enter(m, "RizinTarget"), "blob", "true")
        m2 == SetOpt(m1, "enable_tests", "false")
        m3 == SetOpt(m2, "enable_rz_test", "false")
        m4 == SetOpt(m3, "local", "enabled")
        m5 == SetOpt(m4, "portable", "true")
    IN  BaseHook(m5, "base.MesonTarget", "configure")

SevenZipTarget_detect(m) ==
    HasSourceFile(Enter(m, "SevenZipTarget"), "CPP/7zip/cmpl_mac_arm64.mak")

\* a variant that uses the architecture name as it is
SevenZipTarget_arch_suffix_Raw(st) == st.arch

SevenZipTarget_arch_suffix(st) ==
    LET arch == st.arch
    IN  IF arch = "x86_64" THEN "x64" ELSE arch

SevenZipTarget_build(m) ==
    LET m0 == Enter(m, "SevenZipTarget")
        environment == m0.state.environment
        mak_suffix == SevenZipTarget_arch_suffix(m0.state)
        m1 == SetOpt(m0, "-f", None)
        m2 == SetOpt(m1, "../../cmpl_mac_" \o mak_suffix \o ".mak", None)
        m3 == SetOpt(m2, "CFLAGS_BASE_LIST", environment["CFLAGS"] \o " -Wno-switch-default -c")
        m4 == SetOpt(m3, "LDFLAGS_STATIC_2", environment["LDFLAGS"])
    IN  BaseHook(m4, "base.MakeTarget", "build")

SevenZipTarget_post_build(m) ==
    LET m0 == Enter(m, "SevenZipTarget")
        build_suffix == SevenZipTarget_arch_suffix(m0.state)
    IN  Ext(m0, "self.copy_to_bin",
            <<m0.self.src_root \o "/b/m_" \o build_suffix \o "/7zz", "7zz">>)

UnrarTarget_configure(m) ==
    BaseHook(SetOpt(Enter(m, "UnrarTarget"), "CXXFLAGS",
                    "-std=c++11 -O2 -Wno-logical-op-parentheses -Wno-switch -Wno-dangling-else"),
             "base.MakeTarget", "configure")

UnrarTarget_post_build(m) == Ext(Enter(m, "UnrarTarget"), "self.copy_to_bin", <<>>)

UnrarTarget_detect(m) == HasSourceFile(Enter(m, "UnrarTarget"), "rar.hpp")

XdeltaTarget_detect(m) == HasSourceFile(Enter(m, "XdeltaTarget"), "xdelta3/xdelta3.h")

\* a variant that does not check the exit status of autoreconf
XdeltaTarget_configure_NoCheck(m) ==
    LET m1 == Ext(Enter(m, "XdeltaTarget"), "base.MakeTarget.configure", <<>>)
        work_path == PathJoin(m1.state.build_path, m1.self.src_root)
        m2 == SubprocessRun(m1, <<"autoreconf", "--install">>, FALSE, work_path)
    IN  BaseHook(m2, "base.ConfigureMakeDependencyTarget", "configure")

\* a variant that generates the configure script before the build tree exists
XdeltaTarget_configure_AutoreconfFirst(m) ==
    LET m0 == Enter(m, "XdeltaTarget")
        work_path == PathJoin(m0.state.build_path, m0.self.src_root)
        m1 == SubprocessRun(m0, <<"autoreconf", "--install">>, TRUE, work_path)
        m2 == Ext(m1, "base.MakeTarget.configure", <<>>)
    IN  BaseHook(m2, "base.ConfigureMakeDependencyTarget", "configure")

XdeltaTarget_configure(m) ==
    LET m1 == Ext(Enter(m, "XdeltaTarget"), "base.MakeTarget.configure", <<>>)
        work_path == PathJoin(m1.state.build_path, m1.self.src_root)
        m2 == SubprocessRun(m1, <<"autoreconf", "--install">>, TRUE, work_path)
    IN  BaseHook(m2, "base.ConfigureMakeDependencyTarget", "configure")

XzTarget_configure(m) ==
    LET m1 == AddOpt(Enter(m, "XzTarget"), "BUILD_TESTING", "NO")
        m2 == AddOpt(m1, "CMAKE_EXE_LINKER_FLAGS", "-framework CoreFoundation -liconv")
    IN  BaseHook(m2, "base.CMakeStaticDependencyTarget", "configure")

ZipTarget_detect(m) == HasSourceFile(Enter(m, "ZipTarget"), "zip.h")

---------------------------------------------------------------------------
(* Method resolution: the hook a class defines, or the one it inherits *)

BrotliTarget(hook, m) ==
    CASE hook = "prepare_source" -> BrotliTarget_prepare_source(m)
      [] hook = "post_build"     -> BrotliTarget_post_build(m)
      [] OTHER -> BaseHook(m, Parent("BrotliTarget"), hook)

Bzip2Target(hook, m) ==
    CASE hook = "prepare_source" -> Bzip2Target_prepare_source(m)
      [] hook = "detect"         -> Bzip2Target_detect(m)
      [] hook = "configure"      -> Bzip2Target_configure(m)
      [] hook = "post_build"     -> Bzip2Target_post_build(m)
      [] OTHER -> BaseHook(m, Parent("Bzip2Target"), hook)

ExpatTarget(hook, m) ==
    CASE hook = "prepare_source" -> ExpatTarget_prepare_source(m)
      [] hook = "configure"      -> ExpatTarget_configure(m)
      [] OTHER -> BaseHook(m, Parent("ExpatTarget"), hook)

FfiTarget(hook, m) ==
    CASE hook = "prepare_source" -> FfiTarget_prepare_source(m)
      [] hook = "detect"         -> FfiTarget_detect(m)
      [] hook = "post_build"     -> FfiTarget_post_build(m)
      [] OTHER -> BaseHook(m, Parent("FfiTarget"), hook)

FreeImageTarget(hook, m) ==
    CASE hook = "prepare_source" -> FreeImageTarget_prepare_source(m)
      [] hook = "detect"         -> FreeImageTarget_detect(m)
      [] hook = "configure"      -> FreeImageTarget_configure(m)
      [] hook = "post_build"     -> FreeImageTarget_post_build(m)
      [] OTHER -> BaseHook(m, Parent("FreeImageTarget"), hook)

GettextTarget(hook, m) ==
    CASE hook = "prepare_source" -> GettextTarget_prepare_source(m)
      [] hook = "detect"         -> GettextTarget_detect(m)
      [] hook = "configure"      -> GettextTarget_configure(m)
      [] OTHER -> BaseHook(m, Parent("GettextTarget"), hook)

HighwayTarget(hook, m) ==
    CASE hook = "prepare_source" -> HighwayTarget_prepare_source(m)
      [] hook = "configure"      -> HighwayTarget_configure(m)
      [] OTHER -> BaseHook(m, Parent("HighwayTarget"), hook)

IconvTarget(hook, m) ==
    CASE hook = "prepare_source" -> IconvTarget_prepare_source(m)
      [] hook = "detect"         -> IconvTarget_detect(m)
      [] hook = "configure"      -> IconvTarget_configure(m)
      [] OTHER -> BaseHook(m, Parent("IconvTarget"), hook)

\* a variant deriving from the host's base class instead of GettextTarget
\* class IntlTarget(GettextTarget): what it does not define is GettextTarget's
IntlTarget(hook, m) ==
    CASE hook = "configure"  -> IntlTarget_configure(m)
      [] hook = "build"      -> IntlTarget_build(m)
      [] hook = "post_build" -> IntlTarget_post_build(m)
      [] OTHER -> GettextTarget(hook, m)

JpegTurboTarget(hook, m) ==
    CASE hook = "prepare_source" -> JpegTurboTarget_prepare_source(m)
      [] hook = "configure"      -> JpegTurboTarget_configure(m)
      [] OTHER -> BaseHook(m, Parent("JpegTurboTarget"), hook)

TiffTarget(hook, m) ==
    CASE hook = "prepare_source" -> TiffTarget_prepare_source(m)
      [] hook = "configure"      -> TiffTarget_configure(m)
      [] OTHER -> BaseHook(m, Parent("TiffTarget"), hook)

WxWidgetsTarget(hook, m) ==
    CASE hook = "prepare_source" -> WxWidgetsTarget_prepare_source(m)
      [] hook = "configure"      -> WxWidgetsTarget_configure(m)
      [] hook = "post_build"     -> WxWidgetsTarget_post_build(m)
      [] OTHER -> BaseHook(m, Parent("WxWidgetsTarget"), hook)

AutoconfTarget(hook, m) ==
    CASE hook = "prepare_source" -> AutoconfTarget_prepare_source(m)
      [] OTHER -> BaseHook(m, Parent("AutoconfTarget"), hook)

AutomakeTarget(hook, m) ==
    CASE hook = "prepare_source" -> AutomakeTarget_prepare_source(m)
      [] OTHER -> BaseHook(m, Parent("AutomakeTarget"), hook)

\* a variant deriving from Bzip2Target, whose pkg-config rewrite it repeats
Bzip3Target_FromBzip2(hook, m) ==
    CASE hook = "prepare_source" -> Bzip3Target_prepare_source(m)
      [] hook = "configure"      -> Bzip3Target_configure(m)
      [] OTHER -> Bzip2Target(hook, m)

Bzip3Target(hook, m) ==
    CASE hook = "prepare_source" -> Bzip3Target_prepare_source(m)
      [] hook = "configure"      -> Bzip3Target_configure(m)
      [] OTHER -> BaseHook(m, Parent("Bzip3Target"), hook)

FFmpegTarget(hook, m) ==
    CASE hook = "prepare_source" -> FFmpegTarget_prepare_source(m)
      [] hook = "detect"         -> FFmpegTarget_detect(m)
      [] hook = "configure"      -> FFmpegTarget_configure(m)
      [] OTHER -> BaseHook(m, Parent("FFmpegTarget"), hook)

LuaTarget(hook, m) ==
    CASE hook = "prepare_source" -> LuaTarget_prepare_source(m)
      [] hook = "detect"         -> LuaTarget_detect(m)
      [] hook = "post_build"     -> LuaTarget_post_build(m)
      [] OTHER -> BaseHook(m, Parent("LuaTarget"), hook)

M4Target(hook, m) ==
    CASE hook = "prepare_source" -> M4Target_prepare_source(m)
      [] OTHER -> BaseHook(m, Parent("M4Target"), hook)

P7ZipTarget(hook, m) ==
    CASE hook = "prepare_source" -> P7ZipTarget_prepare_source(m)
      [] hook = "detect"         -> P7ZipTarget_detect(m)
      [] hook = "post_build"     -> P7ZipTarget_post_build(m)
      [] OTHER -> BaseHook(m, Parent("P7ZipTarget"), hook)

PbzxTarget(hook, m) ==
    CASE hook = "prepare_source" -> PbzxTarget_prepare_source(m)
      [] hook = "detect"         -> PbzxTarget_detect(m)
      [] OTHER -> BaseHook(m, Parent("PbzxTarget"), hook)

Radare2Target(hook, m) ==
    CASE hook = "prepare_source" -> Radare2Target_prepare_source(m)
      [] hook = "detect"         -> Radare2Target_detect(m)
      [] hook = "configure"      -> Radare2Target_configure(m)
      [] hook = "post_build"     -> Radare2Target_post_build(m)
      [] OTHER -> BaseHook(m, Parent("Radare2Target"), hook)

RizinTarget(hook, m) ==
    CASE hook = "prepare_source" -> RizinTarget_prepare_source(m)
      [] hook = "detect"         -> RizinTarget_detect(m)
      [] hook = "configure"      -> RizinTarget_configure(m)
      [] OTHER -> BaseHook(m, Parent("RizinTarget"), hook)

SevenZipTarget(hook, m) ==
    CASE hook = "prepare_source" -> SevenZipTarget_prepare_source(m)
      [] hook = "detect"         -> SevenZipTarget_detect(m)
      [] hook = "build"          -> SevenZipTarget_build(m)
      [] hook = "post_build"     -> SevenZipTarget_post_build(m)
      [] OTHER -> BaseHook(m, Parent("SevenZipTarget"), hook)

UnrarTarget(hook, m) ==
    CASE hook = "prepare_source" -> UnrarTarget_prepare_source(m)
      [] hook = "configure"      -> UnrarTarget_configure(m)
      [] hook = "post_build"     -> UnrarTarget_post_build(m)
      [] hook = "detect"         -> UnrarTarget_detect(m)
      [] OTHER -> BaseHook(m, Parent("UnrarTarget"), hook)

XdeltaTarget(hook, m) ==
    CASE hook = "prepare_source" -> XdeltaTarget_prepare_source(m)
      [] hook = "detect"         -> XdeltaTarget_detect(m)
      [] hook = "configure"      -> XdeltaTarget_configure(m)
      [] OTHER -> BaseHook(m, Parent("XdeltaTarget"), hook)

XzTarget(hook, m) ==
    CASE hook = "prepare_source" -> XzTarget_prepare_source(m)
      [] hook = "configure"      -> XzTarget_configure(m)
      [] OTHER -> BaseHook(m, Parent("XzTarget"), hook)

ZipTarget(hook, m) ==
    CASE hook = "prepare_source" -> ZipTarget_prepare_source(m)
      [] hook = "detect"         -> ZipTarget_detect(m)
      [] OTHER -> BaseHook(m, Parent("ZipTarget"), hook)

\* target.hook(state) for an instance of class cls
Dispatch(cls, hook, m) ==
    CASE cls = "BrotliTarget"    -> BrotliTarget(hook, m)
      [] cls = "Bzip2Target"     -> Bzip2Target(hook, m)
      [] cls = "ExpatTarget"     -> ExpatTarget(hook, m)
      [] cls = "FfiTarget"       -> FfiTarget(hook, m)
      [] cls = "FreeImageTarget" -> FreeImageTarget(hook, m)
      [] cls = "GettextTarget"   -> GettextTarget(hook, m)
      [] cls = "HighwayTarget"   -> HighwayTarget(hook, m)
      [] cls = "IconvTarget"     -> IconvTarget(hook, m)
      [] cls = "IntlTarget"      -> IntlTarget(hook, m)
      [] cls = "JpegTurboTarget" -> JpegTurboTarget(hook, m)
      [] cls = "TiffTarget"      -> TiffTarget(hook, m)
      [] cls = "WxWidgetsTarget" -> WxWidgetsTarget(hook, m)
      [] cls = "AutoconfTarget"  -> AutoconfTarget(hook, m)
      [] cls = "AutomakeTarget"  -> AutomakeTarget(hook, m)
      [] cls = "Bzip3Target"     -> Bzip3Target(hook, m)
      [] cls = "FFmpegTarget"    -> FFmpegTarget(hook, m)
      [] cls = "LuaTarget"       -> LuaTarget(hook, m)
      [] cls = "M4Target"        -> M4Target(hook, m)
      [] cls = "P7ZipTarget"     -> P7ZipTarget(hook, m)
      [] cls = "PbzxTarget"      -> PbzxTarget(hook, m)
      [] cls = "Radare2Target"   -> Radare2Target(hook, m)
      [] cls = "RizinTarget"     -> RizinTarget(hook, m)
      [] cls = "SevenZipTarget"  -> SevenZipTarget(hook, m)
      [] cls = "UnrarTarget"     -> UnrarTarget(hook, m)
      [] cls = "XdeltaTarget"    -> XdeltaTarget(hook, m)
      [] cls = "XzTarget"        -> XzTarget(hook, m)
      [] cls = "ZipTarget"       -> ZipTarget(hook, m)

---------------------------------------------------------------------------
(* The host: bounds and inputs *)

\* how many files the install step leaves below install_path
MaxInstalled == 2

\* how many configure -> build -> post_build cycles are counted
MaxCycles == 2

\* the longest src_root, build_path, environment value and option value kept
MaxSrcRootLen == 30
MaxPathLen == 75
MaxEnvLen == 200
MaxOptLen == 100

\* state.architecture(), told apart for the recipes that ask for it
Archs(cls) ==
    IF cls \in { "FFmpegTarget", "SevenZipTarget" } THEN { "x86_64", "arm64" } ELSE { "arm64" }

\* the prefix of install_path, told apart for the recipes whose hooks rename
\* or unlink installed files by path
InstallRoots(cls) ==
    IF cls \in { "BrotliTarget", "Bzip2Target", "Radare2Target" }
    THEN { "/deps", "/deps-static.a" } ELSE { "/deps" }

\* the source files the detect hooks look for
DetectFiles(cls) ==
    CASE cls = "Bzip2Target"     -> { "bzlib.h" }
      [] cls = "FfiTarget"       -> { "libffi.pc.in" }
      [] cls = "FreeImageTarget" -> { "Source/FreeImage.h" }
      [] cls \in { "GettextTarget", "IntlTarget" } -> { "gettext-runtime" }
      [] cls = "IconvTarget"     -> { "include/iconv.h.in" }
      [] cls = "FFmpegTarget"    -> { "doc/ffmpeg.txt" }
      [] cls = "LuaTarget"       -> { "src/lua.h" }
      [] cls = "P7ZipTarget"     -> { "CPP/7zip/CMAKE/CMakeLists.txt",
                                      "C/fast-lzma2/fast-lzma2.h" }
      [] cls = "PbzxTarget"      -> { "pbzx.c" }
      [] cls = "Radare2Target"   -> { "man/radare2.1" }
      [] cls = "RizinTarget"     -> { "binrz/man/rizin.1" }
      [] cls = "SevenZipTarget"  -> { "CPP/7zip/cmpl_mac_arm64.mak" }
      [] cls = "UnrarTarget"     -> { "rar.hpp" }
      [] cls = "XdeltaTarget"    -> { "xdelta3/xdelta3.h" }
      [] cls = "ZipTarget"       -> { "zip.h" }
      [] OTHER -> {}

\* the files the host's install step may leave below install_path, as far as
\* a post_build hook of the repository unlinks or renames them
InstalledPool(cls) ==
    CASE cls = "BrotliTarget" ->
            { "lib/libbrotlicommon-static.a", "lib/libbrotlicommon.a",
              "lib/libbrotlicommon.1.0.9.dylib", "lib/.libbrotlienc.dylib",
              "lib/libbrotlienc-static.a-static.a" }
      [] cls = "Bzip2Target" -> { "lib/libbz2_static.a", "lib/libbz2.a" }
      [] cls = "Radare2Target" -> { "bin/r2blob.static", "bin/r2blob", "bin/radare2" }
      [] OTHER -> {}

\* the orders in which a directory listing may yield the files of S
Perms(S) ==
    { s \in [1..Cardinality(S) -> S] : \A i, j \in DOMAIN s : s[i] = s[j] => i = j }

\* the listing orders that a hook of cls can tell apart: only BrotliTarget
\* iterates over a listing
Orders(cls, S) ==
    IF cls = "BrotliTarget" THEN Perms(S) ELSE { CHOOSE o \in Perms(S) : TRUE }

\* where a rename of a file of dir lands when its path loses every '-static.a'
OtherDirs(st) ==
    LET lib == PathJoin(st.install_path, "lib")
        twin == Replace(lib, "-static.a", ".a")
    IN  IF twin = lib THEN { {} } ELSE { {}, {twin} }

\* the files the install step of one post_build leaves
InstalledChoices(st, hook) ==
    IF hook = "post_build"
    THEN { T \in SUBSET InstalledPool(st.target) : Cardinality(T) <= MaxInstalled }
    ELSE { {} }

\* what the environment decides in one call of hook on the target of st,
\* but for the call that raises
Inputs(st, hook) ==
    UNION { { [ failAt |-> 0, rc |-> r, installed |-> S, order |-> o, dirs |-> D ] :
                r \in IF st.target = "XdeltaTarget" /\ hook = "configure"
                      THEN {0, 1} ELSE {0},
                D \in IF hook = "post_build" THEN OtherDirs(st) ELSE { {} },
                o \in Orders(st.target, S) } :
            S \in InstalledChoices(st, hook) }

NoInput == [ failAt |-> 0, rc |-> 0, installed |-> {}, order |-> <<>>, dirs |-> {} ]

\* the BuildState the host makes for one build of a target
BuildState(cls, arch, root, tree) ==
    [ target |-> cls,
      options |-> <<>>,
      build_path |-> "/build/" \o Construct(cls).name,
      install_path |-> root \o "/" \o Construct(cls).name,
      environment |-> [ CFLAGS |-> "-O2", CXXFLAGS |-> "-O2", LDFLAGS |-> "-L/deps/lib" ],
      arch |-> arch,
      tree |-> tree ]

BuildStates ==
    UNION { { BuildState(cls, arch, root, tree) :
                arch \in Archs(cls), root \in InstallRoots(cls),
                tree \in SUBSET DetectFiles(cls) } :
            cls \in Classes }

---------------------------------------------------------------------------
(* The host: state and actions *)

\* the summary kept of a hook call
Summary(cls, hook, m0, m1) ==
    [ target |-> cls, hook |-> hook, exc |-> m1.exc, ret |-> m1.ret,
      trace |-> m1.trace, frames |-> m1.frames,
      build_path0 |-> m0.state.build_path, options0 |-> m0.state.options,
      installed |-> m0.inp.installed ]

NoCall ==
    [ target |-> "", hook |-> "", exc |-> NoExc, ret |-> None, trace |-> <<>>,
      frames |-> {}, build_path0 |-> "", options0 |-> <<>>, installed |-> {} ]

CycleOrder == << "configure", "build", "post_build" >>

NoCycle == [ calls |-> <<>>, done |-> 0 ]

\* the configure -> build -> post_build cycles that follow one another
\* without a failure or another call between them
NextCycle(c, s) ==
    IF s.exc # NoExc THEN NoCycle
    ELSE IF Len(c.calls) < 3 /\ s.hook = CycleOrder[Len(c.calls) + 1]
         THEN [ calls |-> Append(c.calls, s),
                done |-> IF Len(c.calls) = 2 THEN c.done + 1 ELSE c.done ]
         ELSE IF s.hook = "configure"
              THEN [ calls |-> <<s>>, done |-> IF Len(c.calls) = 3 THEN c.done ELSE 0 ]
              ELSE NoCycle

\* the strings a behaviour keeps stay within the bounds
Bounded(m) ==
    /\ Len(m.self.src_root) <= MaxSrcRootLen
    /\ Len(m.state.build_path) <= MaxPathLen
    /\ \A k \in DOMAIN m.state.environment : Len(m.state.environment[k]) <= MaxEnvLen
    /\ \A k \in DOMAIN m.state.options : Len(m.state.options[k]) <= MaxOptLen

InitHost ==
    /\ inst = [cls \in Classes |-> Construct(cls)]
    /\ state \in BuildStates
    /\ files = {}
    /\ last = NoCall
    /\ cyc = NoCycle
    /\ registry = [called |-> FALSE, exc |-> NoExc, name |-> "", value |-> <<>>]
    /\ detected = <<>>

\* the host at rest while the rewrite functions are called
InitIdleHost ==
    /\ inst = [cls \in Classes |-> Construct(cls)]
    /\ state = BuildState("TiffTarget", "arm64", "/deps", {})
    /\ files = {}
    /\ last = NoCall
    /\ cyc = NoCycle
    /\ registry = [called |-> FALSE, exc |-> NoExc, name |-> "", value |-> <<>>]
    /\ detected = <<>>

\* no line is under rewrite while the hooks are called
InitIdleText ==
    /\ txFn = "BrotliTarget"
    /\ txLine = ""
    /\ txCalls = <<>>
    /\ txFile = <<>>
    /\ txPasses = <<>>

Init == InitHost /\ InitIdleText

\* the host builds the target again: a fresh BuildState and install directory
NewBuild(st) ==
    /\ st.target = state.target
    /\ state' = st
    /\ files' = {}
    /\ last' = NoCall
    /\ cyc' = NoCycle
    /\ UNCHANGED <<inst, registry, detected, varsText>>

\* the record a hook call starts from
Call(cls, inp) ==
    [ self |-> inst[cls], state |-> state, files |-> files, trace |-> <<>>,
      frames |-> {}, exc |-> NoExc, ret |-> None, n |-> 0, inp |-> inp ]

\* the external calls hook makes when none of them raises
ExtCalls(hook, inp) == Dispatch(state.target, hook, Call(state.target, inp)).n

\* the install step of a build runs once, into the empty install directory
MayCall(hook) == hook = "post_build" /\ InstalledPool(state.target) # {} => files = {}

\* the host calls one hook of the target under build
CallHook(hook, inp) ==
    LET cls == state.target
    IN  /\ MayCall(hook)
        /\ \E m0 \in { Call(cls, inp) } :
            \E m1 \in { Dispatch(cls, hook, m0) } :
            \E s \in { Summary(cls, hook, m0, m1) } :
            \E c \in { NextCycle(cyc, s) } :
                /\ Bounded(m1)
                /\ c.done <= MaxCycles
                /\ inst' = [inst EXCEPT ![cls] = m1.self]
                /\ state' = m1.state
                /\ files' = m1.files
                /\ last' = s
                /\ cyc' = c
                /\ UNCHANGED <<registry, detected, varsText>>

\* the host asks the module for its targets
CallTargets ==
    /\ registry' = [called |-> TRUE, exc |-> targets.exc, name |-> targets.name,
                    value |-> targets.value]
    /\ UNCHANGED <<inst, state, files, last, cyc, detected, varsText>>

Next ==
    \/ \E st \in BuildStates : NewBuild(st)
    \/ \E hook \in { h \in Hooks : MayCall(h) } : \E inp \in Inputs(state, hook) :
          \E f \in 0..ExtCalls(hook, inp) : CallHook(hook, [inp EXCEPT !.failAt = f])
    \/ CallTargets

Spec == Init /\ [][Next]_vars

---------------------------------------------------------------------------
(* The host asks the targets, in the order of targets(), whether a source  *)
(* tree is theirs                                                          *)

\* the files of the source tree, out of those the detect hooks look for
MaxTreeFiles == 2

\* the classes targets() constructs that exist, in its order
DetectOrder == SelectSeq(TargetsNames, LAMBDA name : name \in ModuleGlobals)

DetectTrees ==
    { T \in SUBSET (UNION { DetectFiles(cls) : cls \in Classes }) :
          Cardinality(T) <= MaxTreeFiles }

InitDetect ==
    /\ InitIdleText
    /\ inst = [cls \in Classes |-> Construct(cls)]
    /\ state \in { BuildState(DetectOrder[1], "arm64", "/deps", T) : T \in DetectTrees }
    /\ files = {}
    /\ last = NoCall
    /\ cyc = NoCycle
    /\ registry = [called |-> FALSE, exc |-> NoExc, name |-> "", value |-> <<>>]
    /\ detected = <<>>

\* target.detect(state) for the next target, on the same source tree; an
\* exception ends the search
Detect(failAt) ==
    /\ Len(detected) < Len(DetectOrder)
    /\ detected # <<>> => detected[Len(detected)].exc = NoExc
    /\ LET cls == DetectOrder[Len(detected) + 1]
           st == BuildState(cls, "arm64", "/deps", state.tree)
           m0 == [Call(cls, [NoInput EXCEPT !.failAt = failAt]) EXCEPT !.state = st]
       IN  \E m1 \in { Dispatch(cls, "detect", m0) } :
               /\ failAt <= m1.n
               /\ failAt > 0 => m1.exc # NoExc
               /\ state' = m1.state
               /\ inst' = [inst EXCEPT ![cls] = m1.self]
               /\ last' = Summary(cls, "detect", m0, m1)
               /\ detected' = Append(detected,
                                [ target |-> cls, ret |-> m1.ret, exc |-> m1.exc,
                                  frames |-> m1.frames ])
               /\ UNCHANGED <<files, cyc, registry, varsText>>

NextDetect == \E failAt \in 0..2 : Detect(failAt)

SpecDetect == InitDetect /\ [][NextDetect]_vars

---------------------------------------------------------------------------
(* Inputs of the rewrite functions *)

\* how many calls of one function with one line a behaviour holds
MaxCalls == 2

PcFiles == {"libbrotlicommon.pc", "libtiff-4.pc"}

LineHeads ==
    { "", "Version:", "Cflags:", "Libs:", "Libs.private:", "Requires:",
      "Requires.private:", " Libs:", "Libs", "version:", "bindir=", "libdir=",
      "exec_bindir=",
      "#define wxINSTALL_PREFIX ", "#define wxINSTALL_PREFIX", "#define wxUSE_GUI ",
      wx_prefix, wx_is_cross_func, wx_is_cross_test, wx_output_option_cc,
      wx_output_option_cxx, wx_output_option_ld, wx_ldlibs_gl,
      "is_cross", "[ -z \"$output_option_c", "[ -z \"$output_option_cxxflags\" ",
      "prefix=", "  ldlibs_gl=" }

LineTails ==
    { "", "\n", " 1.0.9\n", " -L${libdir} -R${libdir} -lbrotlienc -R${libdir} \n",
      "\"/Users/build/prefix\"\n", "${prefix}/bin\n" }

TextLines == { h \o t : h \in LineHeads, t \in LineTails }

InitText ==
    /\ InitIdleHost
    /\ txFn \in PkgConfigFns \cup WxPatchFns
    /\ txLine \in TextLines
    /\ txCalls = <<>>
    /\ txFile = <<>>
    /\ txPasses = <<>>

\* the host's post_build hands one line of a .pc file to the recipe
ProcessPkgConfig(pcfile) ==
    /\ txFn \in PkgConfigFns
    /\ Len(txCalls) < MaxCalls
    /\ txCalls' = Append(txCalls,
                    [pcfile |-> pcfile, out |-> process_pkg_config(txFn, pcfile, txLine)])
    /\ UNCHANGED <<txFn, txLine, txFile, txPasses, varsHost>>

\* update_text_file hands one line of setup.h or wx-config to the patch function
PatchLine ==
    /\ txFn \in WxPatchFns
    /\ Len(txCalls) < MaxCalls
    /\ txCalls' = Append(txCalls, [pcfile |-> "", out |-> wx_patch(txFn, txLine)])
    /\ UNCHANGED <<txFn, txLine, txFile, txPasses, varsHost>>

NextText ==
    \/ \E pcfile \in PcFiles : ProcessPkgConfig(pcfile)
    \/ PatchLine

SpecText == InitText /\ [][NextText]_vars

---------------------------------------------------------------------------
(* Rewriting a text file line by line *)

\* the lines a file holds and the rewrites of one file a behaviour holds
MaxFileLines == 2
MaxPasses == 2

\* iterating over a text file: the lines of text, each with its newline
RECURSIVE SplitLines(_)
SplitLines(text) ==
    IF text = "" THEN <<>>
    ELSE LET ends == { i \in 1..Len(text) : SubSeq(text, i, i) = "\n" }
         IN  IF ends = {} THEN <<text>>
             ELSE LET end == CHOOSE i \in ends : \A j \in ends : i <= j
                  IN  <<SubSeq(text, 1, end)>> \o
                          SplitLines(SubSeq(text, end + 1, Len(text)))

\* the rewrite function fn applied to one line
RewriteLine(fn, pcfile, line) ==
    IF fn \in PkgConfigFns THEN process_pkg_config(fn, pcfile, line)
    ELSE wx_patch(fn, line)

\* the text written for the lines of a file: what fn returns for each, in order
RECURSIVE RewriteText(_, _, _)
RewriteText(fn, pcfile, lines) ==
    IF lines = <<>> THEN ""
    ELSE RewriteLine(fn, pcfile, Head(lines)) \o RewriteText(fn, pcfile, Tail(lines))

\* lines of the files the recipes rewrite, as installed
FileLines ==
    { "Version: 4.3.0\n", "Cflags: -I${includedir}\n", "Libs: -L${libdir} -ltiff -lm\n",
      "Libs: -L${libdir} -R${libdir} -lbrotlienc\n", "bindir=${exec_prefix}/bin\n",
      "Requires.private: libjpeg\n",
      "#define wxINSTALL_PREFIX \"/Users/build/prefix\"\n",
      wx_is_cross_func \o "{ [ \"xno\" = \"xyes\" ]; }\n",
      wx_output_option_cc \o "] || echo \"clang\"\n" }

Files(n) == UNION { [1..k -> FileLines] : k \in 0..n }

InitFile ==
    /\ InitIdleHost
    /\ txFn \in PkgConfigFns \cup WxPatchFns
    /\ txLine = ""
    /\ txCalls = <<>>
    /\ txFile \in Files(MaxFileLines)
    /\ txPasses = <<>>

\* the host reads the file, hands each line to the rewrite function and
\* writes what it returns; the next rewrite reads the lines written
RewriteFile(pcfile) ==
    LET lines == IF txPasses = <<>> THEN txFile ELSE txPasses[Len(txPasses)]
    IN  /\ Len(txPasses) < MaxPasses
        /\ txPasses' = Append(txPasses, SplitLines(RewriteText(txFn, pcfile, lines)))
        /\ UNCHANGED <<txFn, txLine, txCalls, txFile, varsHost>>

NextFile == \E pcfile \in PcFiles : RewriteFile(pcfile)

SpecFile == InitFile /\ [][NextFile]_vars

---------------------------------------------------------------------------
(* Properties of targets() and of the hooks *)

\* C1: targets() completes and returns one flat tuple, libraries first and
\* then tools, in which every constructed target is a recipe class defined in
\* library.py or tool.py: no name used inside targets() is left undefined.
C1_TargetsCompletes ==
    registry.called =>
        /\ registry.exc = NoExc
        /\ Len(registry.value) = Len(TargetsNames)
        /\ \A i \in DOMAIN registry.value : registry.value[i] \in ModuleGlobals
        /\ \A i, j \in DOMAIN registry.value :
              i < j /\ registry.value[i] \in ToolClasses =>
                  registry.value[j] \in ToolClasses

\* C2 as stated: after any sequence of hook calls every field of every target
\* instance still has the value it was given at construction.
C2_FieldsStatic == inst = [cls \in Classes |-> Construct(cls)]

\* C2, amended: after any sequence of hook calls every field of every target
\* instance still has the value it was given at construction, but for src_root
\* of the IntlTarget instance, which is the constructed value or
\* 'gettext-runtime', followed by zero or more '/intl'.
RECURSIVE IntlSrcRoot(_)
IntlSrcRoot(r) ==
    \/ r \in { Construct("IntlTarget").src_root, "gettext-runtime" }
    \/ /\ EndsWith(r, "/intl")
       /\ IntlSrcRoot(SubSeq(r, 1, Len(r) - Len("/intl")))

C2_FieldsStaticButIntlSrcRoot ==
    /\ \A cls \in Classes \ {"IntlTarget"} : inst[cls] = Construct(cls)
    /\ [inst["IntlTarget"] EXCEPT !.src_root = ""] = Construct("IntlTarget")
    /\ IntlSrcRoot(inst["IntlTarget"].src_root)

\* IntlTarget.build has returned and left src_root changed
C2_Witness ==
    /\ last.target = "IntlTarget"
    /\ last.hook = "build"
    /\ last.exc = NoExc
    /\ inst["IntlTarget"].src_root = "gettext-runtime/intl"

C4_FailuresPropagate ==
    LET tr == last.trace
    IN  /\ \A i \in DOMAIN tr : ~tr[i].ok => i = Len(tr) /\ last.exc # NoExc
        /\ last.exc # NoExc => tr # <<>> /\ ~tr[Len(tr)].ok
        /\ last.target = "XdeltaTarget" /\ last.hook = "configure" =>
              \A i \in DOMAIN tr :
                  tr[i].call = "subprocess.run" /\ tr[i].rc # 0 =>
                      /\ last.exc = "CalledProcessError"
                      /\ \A j \in DOMAIN tr :
                            tr[j].call # "base.ConfigureMakeDependencyTarget.configure"

\* autoreconf has exited with a non-zero status in XdeltaTarget.configure
C4_Witness ==
    /\ last.target = "XdeltaTarget"
    /\ last.hook = "configure"
    /\ last.exc = "CalledProcessError"
    /\ Len(last.trace) = 2
    /\ last.trace[2].rc # 0

\* C6: in every configure -> build -> post_build cycle run on the IntlTarget
\* instance, the first or a later one, the base configure runs with src_root
\* 'gettext-runtime', the base build with src_root 'gettext-runtime/intl', and
\* post_build calls install with build_path equal to the build path the cycle
\* started with joined with 'gettext-runtime/intl' and with the options
\* 'install-exec-am' and 'install-nodist_includeHEADERS' set.
C6_IntlCycle ==
    LET calls == cyc.calls
        Calls(i, name) ==
            { k \in DOMAIN calls[i].trace : calls[i].trace[k].call = name }
    IN  (calls # <<>> /\ calls[1].target = "IntlTarget") =>
            /\ LET ev == Calls(1, "base.ConfigureMakeStaticDependencyTarget.configure")
               IN  /\ Cardinality(ev) = 1
                   /\ \A k \in ev : calls[1].trace[k].src_root = "gettext-runtime"
            /\ Len(calls) >= 2 =>
                  LET ev == Calls(2, "base.ConfigureMakeStaticDependencyTarget.build")
                  IN  /\ Cardinality(ev) = 1
                      /\ \A k \in ev : calls[2].trace[k].src_root = "gettext-runtime/intl"
            /\ Len(calls) = 3 =>
                  LET ev == Calls(3, "self.install")
                  IN  /\ Cardinality(ev) = 1
                      /\ \A k \in ev :
                            LET e == calls[3].trace[k]
                            IN  /\ e.build_path =
                                      calls[1].build_path0 \o "/gettext-runtime/intl"
                                /\ calls[2].build_path0 = calls[1].build_path0
                                /\ calls[3].build_path0 = calls[1].build_path0
                                /\ {"install-exec-am", "install-nodist_includeHEADERS"}
                                      \subseteq DOMAIN e.options

\* a second cycle in a row has been completed on the IntlTarget instance
C6_Witness ==
    /\ Len(cyc.calls) = 3
    /\ cyc.calls[1].target = "IntlTarget"
    /\ cyc.done = 2

C9_BrotliPostBuild ==
    LET lib == state.install_path \o "/lib"
        suffix == "-static.a"
        InLib(f) == StartsWith(f, "lib/")
        IsDylib(f) == EndsWith(f, ".dylib")
        IsArchive(f) == EndsWith(f, suffix)
        NoSuffix(f) == SubSeq(f, 1, Len(f) - Len(suffix)) \o ".a"
    IN  (last.target = "BrotliTarget" /\ last.hook = "post_build" /\ last.exc = NoExc) =>
            /\ \A g \in files : ~(Dirname(g.path) = lib /\ EndsWith(g.path, ".dylib"))
            /\ \A f \in last.installed :
                  InLib(f) /\ IsArchive(f) =>
                      [path |-> state.install_path \o "/" \o NoSuffix(f), origin |-> f]
                          \in files
            /\ \A f \in last.installed :
                  InLib(f) /\ ~IsDylib(f) /\ ~IsArchive(f) =>
                      [path |-> state.install_path \o "/" \o f, origin |-> f] \in files

---------------------------------------------------------------------------
(* Properties of the rewrite functions *)

\* C12 as stated: for any source tree at most one target whose class defines
\* or inherits a detect of this repository returns true from detect, and
\* P7ZipTarget.detect is true only when both of its files are present.
C12_DetectUnambiguous ==
    LET yes == { i \in DOMAIN detected :
                    detected[i].frames # {} /\ detected[i].ret = "True" }
    IN  /\ Cardinality(yes) <= 1
        /\ \A i \in yes :
              detected[i].target = "P7ZipTarget" =>
                  { "CPP/7zip/CMAKE/CMakeLists.txt", "C/fast-lzma2/fast-lzma2.h" }
                      \subseteq state.tree

\* the source files whose presence makes detect of a class true
C12_Markers(cls) ==
    CASE cls = "Bzip2Target"     -> { "bzlib.h" }
      [] cls = "FfiTarget"       -> { "libffi.pc.in" }
      [] cls = "FreeImageTarget" -> { "Source/FreeImage.h" }
      [] cls = "GettextTarget"   -> { "gettext-runtime" }
      [] cls = "IntlTarget"      -> { "gettext-runtime" }
      [] cls = "IconvTarget"     -> { "include/iconv.h.in" }
      [] cls = "FFmpegTarget"    -> { "doc/ffmpeg.txt" }
      [] cls = "LuaTarget"       -> { "src/lua.h" }
      [] cls = "P7ZipTarget"     -> { "CPP/7zip/CMAKE/CMakeLists.txt",
                                      "C/fast-lzma2/fast-lzma2.h" }
      [] cls = "PbzxTarget"      -> { "pbzx.c" }
      [] cls = "Radare2Target"   -> { "man/radare2.1" }
      [] cls = "RizinTarget"     -> { "binrz/man/rizin.1" }
      [] cls = "SevenZipTarget"  -> { "CPP/7zip/cmpl_mac_arm64.mak" }
      [] cls = "UnrarTarget"     -> { "rar.hpp" }
      [] cls = "XdeltaTarget"    -> { "xdelta3/xdelta3.h" }
      [] cls = "ZipTarget"       -> { "zip.h" }

\* C12, amended: a detect of this repository that returns is true exactly when
\* the files it looks for are all present (for P7ZipTarget both of its two
\* files); two targets are both true only on a tree that holds the files of
\* both, and GettextTarget and IntlTarget, which share one detect, are true
\* on the same trees.
C12_DetectByMarkers ==
    LET own == { i \in DOMAIN detected :
                    detected[i].frames # {} /\ detected[i].exc = NoExc }
    IN  /\ \A i \in own :
              /\ detected[i].ret \in { "True", "False" }
              /\ detected[i].ret = "True" <=>
                     C12_Markers(detected[i].target) \subseteq state.tree
        /\ \A i, j \in own :
              (i # j /\ detected[i].ret = "True" /\ detected[j].ret = "True") =>
                  \/ { detected[i].target, detected[j].target } =
                         { "GettextTarget", "IntlTarget" }
                  \/ /\ C12_Markers(detected[i].target) # C12_Markers(detected[j].target)
                     /\ Cardinality(state.tree) >= 2
        /\ \A i \in own :
              detected[i].target = "IntlTarget" =>
                  \E j \in own : /\ detected[j].target = "GettextTarget"
                                 /\ detected[j].ret = detected[i].ret

\* GettextTarget, IntlTarget and P7ZipTarget have been asked about a tree
\* with 'gettext-runtime' and one of the two files of p7zip: the first two
\* are true, the third is not
C12_Witness ==
    /\ state.tree = { "gettext-runtime", "C/fast-lzma2/fast-lzma2.h" }
    /\ \E i, j, k \in DOMAIN detected :
          /\ detected[i].target = "GettextTarget" /\ detected[i].ret = "True"
          /\ detected[j].target = "IntlTarget" /\ detected[j].ret = "True"
          /\ detected[k].target = "P7ZipTarget" /\ detected[k].ret = "False"

\* C13: SevenZipTarget uses one architecture suffix within a build: build
\* selects the makefile '../../cmpl_mac_<s>.mak' and post_build copies
\* 'CPP/7zip/Bundles/Alone2/b/m_<s>/7zz' as '7zz' with the same s, which is
\* 'x64' for the architecture 'x86_64' and the architecture name otherwise;
\* build also passes CFLAGS_BASE_LIST = environment CFLAGS followed by
\* ' -Wno-switch-default -c' and LDFLAGS_STATIC_2 = environment LDFLAGS.
C13_SevenZipSuffix ==
    LET s == IF state.arch = "x86_64" THEN "x64" ELSE state.arch
        mak == "../../cmpl_mac_" \o s \o ".mak"
        bin == "CPP/7zip/Bundles/Alone2/b/m_" \o s \o "/7zz"
        Builds(c) == { k \in DOMAIN c.trace : c.trace[k].call = "base.MakeTarget.build" }
        Copies(c) == { k \in DOMAIN c.trace : c.trace[k].call = "self.copy_to_bin" }
        BuildOk(c) ==
            /\ Cardinality(Builds(c)) = 1
            /\ \A k \in Builds(c) :
                  LET o == c.trace[k].options
                  IN  /\ { "-f", mak, "CFLAGS_BASE_LIST", "LDFLAGS_STATIC_2" }
                            \subseteq DOMAIN o
                      /\ \A key \in DOMAIN o :
                            StartsWith(key, "../../cmpl_mac_") => key = mak
                      /\ o["CFLAGS_BASE_LIST"] =
                            state.environment["CFLAGS"] \o " -Wno-switch-default -c"
                      /\ o["LDFLAGS_STATIC_2"] = state.environment["LDFLAGS"]
        CopyOk(c) ==
            /\ Cardinality(Copies(c)) = 1
            /\ \A k \in Copies(c) : c.trace[k].arg = <<bin, "7zz">>
    IN  /\ (last.target = "SevenZipTarget" /\ last.hook = "build") => BuildOk(last)
        /\ (last.target = "SevenZipTarget" /\ last.hook = "post_build") => CopyOk(last)
        /\ (Len(cyc.calls) = 3 /\ cyc.calls[1].target = "SevenZipTarget") =>
              BuildOk(cyc.calls[2]) /\ CopyOk(cyc.calls[3])

\* a build and the post_build after it have run for the architecture x86_64
C13_Witness ==
    /\ state.arch = "x86_64"
    /\ Len(cyc.calls) = 3
    /\ cyc.calls[1].target = "SevenZipTarget"
    /\ cyc.calls[3].exc = NoExc

\* the flags of an option value: its words between spaces
RECURSIVE C14_Flags(_)
C14_Flags(v) ==
    IF v = "" THEN <<>>
    ELSE LET gaps == { i \in 1..Len(v) : SubSeq(v, i, i) = " " }
         IN  IF gaps = {} THEN <<v>>
             ELSE LET gap == CHOOSE i \in gaps : \A j \in gaps : i <= j
                      rest == C14_Flags(SubSeq(v, gap + 1, Len(v)))
                  IN  IF gap = 1 THEN rest ELSE <<SubSeq(v, 1, gap - 1)>> \o rest

\* C14: XzTarget.configure extends the option values before the base
\* configure runs: the CMAKE_EXE_LINKER_FLAGS the base configure sees holds
\* every flag of the prior value intact, followed by '-framework
\* CoreFoundation' and '-liconv' as flags of their own; BUILD_TESTING is
\* exactly 'NO' when it was not set before; and a configure called on the
\* options a first configure left leaves both values as they are.
C14_XzConfigureExtends ==
    LET bt == "BUILD_TESTING"
        lf == "CMAKE_EXE_LINKER_FLAGS"
        added == "-framework CoreFoundation -liconv"
        o0 == last.options0
        ev == { k \in DOMAIN last.trace :
                   last.trace[k].call = "base.CMakeStaticDependencyTarget.configure" }
    IN  (last.target = "XzTarget" /\ last.hook = "configure") =>
            /\ Cardinality(ev) = 1
            /\ \A k \in ev :
                  LET o == last.trace[k].options
                  IN  /\ {bt, lf} \subseteq DOMAIN o
                      /\ C14_Flags(o[lf]) = C14_Flags(Get(o0, lf)) \o C14_Flags(added)
                      /\ bt \notin DOMAIN o0 => o[bt] = "NO"
                      /\ (Get(o0, bt) = "NO" /\ Get(o0, lf) = added) =>
                            o[bt] = o0[bt] /\ o[lf] = o0[lf]

\* C11: every text rewrite is idempotent at file level: rewriting the lines of
\* a file with the rewrite function and then rewriting the lines of the result
\* again yields the same file as rewriting once.
C11_RewriteIdempotent == Len(txPasses) >= 2 => txPasses[2] = txPasses[1]

\* C5: every pkg-config line transformation is a deterministic pure function
\* of the line: all calls of one recipe's _process_pkg_config with the same
\* line return the same result, whatever pcfile is passed and whatever calls
\* came before, and no call changes the function or the line it is given.
C5_PkgConfigPure ==
    txFn \in PkgConfigFns =>
        /\ \A i, j \in DOMAIN txCalls : txCalls[i].out = txCalls[j].out
        /\ \A i \in DOMAIN txCalls :
              \A pcfile \in PcFiles :
                  txCalls[i].out = process_pkg_config(txFn, pcfile, txLine)

\* two calls with different pcfile arguments on a line the recipe rewrites
C5_Witness ==
    /\ txFn \in PkgConfigFns
    /\ Len(txCalls) = 2
    /\ txCalls[1].pcfile # txCalls[2].pcfile
    /\ txCalls[1].out # txLine

\* C8: TiffTarget._process_pkg_config maps 'Version:' lines to
\* 'Version: 4.3.0\n', 'Cflags:' lines to the include flags followed by the
\* Requires.private line, 'Libs:' lines to 'Libs: -L${libdir} -ltiff\n' and
\* returns every other line unchanged; at most one prefix matches a line, so
\* testing them in another order gives the same result.
C8_TiffMapping ==
    txFn = "TiffTarget" =>
        \A i \in DOMAIN txCalls :
            LET out == txCalls[i].out
                v == StartsWith(txLine, "Version:")
                c == StartsWith(txLine, "Cflags:")
                l == StartsWith(txLine, "Libs:")
                vOut == "Version: 4.3.0\n"
                cOut == "Cflags: -I${includedir}\nRequires.private: libjpeg liblzma libwebp libzstd zlib\n"
                lOut == "Libs: -L${libdir} -ltiff\n"
            IN  /\ Cardinality({p \in {"Version:", "Cflags:", "Libs:"} :
                                   StartsWith(txLine, p)}) <= 1
                /\ v => out = vOut
                /\ c => out = cOut
                /\ l => out = lOut
                /\ ~(v \/ c \/ l) => out = txLine
                \* the tests in reverse order
                /\ out = IF l THEN lOut ELSE IF c THEN cOut ELSE IF v THEN vOut ELSE txLine

\* a 'Libs.private:' line has been handed to the Tiff rewrite
C8_Witness ==
    /\ txFn = "TiffTarget"
    /\ Len(txCalls) >= 1
    /\ StartsWith(txLine, "Libs.private:")
    /\ Len(txLine) > Len("Libs.private:")

\* C10: patch_wx_config applies at most one of its seven rules to a line: no
\* rule's prefix is a prefix of another's, a matching line is replaced by the
\* rule's fixed text, which begins with the rule's prefix, and any other line
\* is returned unchanged; patch_setup_h changes only lines starting with
\* '#define wxINSTALL_PREFIX ', to '#define wxINSTALL_PREFIX "/usr/local"\n'.
C10_WxPatchRules ==
    LET rules == { wx_prefix, wx_is_cross_func, wx_is_cross_test, wx_output_option_cc,
                   wx_output_option_cxx, wx_output_option_ld, wx_ldlibs_gl }
        matched == { p \in rules : StartsWith(txLine, p) }
    IN  /\ Cardinality(rules) = 7
        /\ \A p, q \in rules : p # q => ~StartsWith(p, q)
        /\ txFn = "patch_wx_config" =>
              \A i \in DOMAIN txCalls :
                  /\ Cardinality(matched) <= 1
                  /\ \A p \in matched :
                        /\ StartsWith(txCalls[i].out, p)
                        /\ txCalls[i].out = patch_wx_config(p)
                  /\ matched = {} => txCalls[i].out = txLine
        /\ txFn = "patch_setup_h" =>
              \A i \in DOMAIN txCalls :
                  txCalls[i].out =
                      IF StartsWith(txLine, "#define wxINSTALL_PREFIX ")
                      THEN "#define wxINSTALL_PREFIX \"/usr/local\"\n"
                      ELSE txLine

\* an 'output_option_cxx' line has been patched
C10_Witness ==
    /\ txFn = "patch_wx_config"
    /\ Len(txCalls) >= 1
    /\ StartsWith(txLine, wx_output_option_cxx)
    /\ txCalls[1].out # txLine
    /\ StartsWith(txCalls[1].out, wx_output_option_cxx)

=============================================================================
